---- MODULE Spec2Model ----
(***************************************************************************)
(* Model of big_integer (src/bigint-Kolya28/big_integer.{h,cpp}): an       *)
(* arbitrary-precision signed integer kept as a little-endian vector of    *)
(* limbs (_data) and a sign flag (_negative).                              *)
(*                                                                         *)
(* The limb type is DIGIT_BITS wide and the double limb 2*DIGIT_BITS wide; *)
(* all limb arithmetic wraps at those widths exactly as the uint32_t /     *)
(* uint64_t arithmetic of the source does.  The width is scaled down so    *)
(* that every limb value can be enumerated.                                *)
(***************************************************************************)
EXTENDS Integers, Sequences, FiniteSets, TLC

\* ------------------------------------------------------------------- bound
\* largest number of limbs a stored instance (x, y) may hold
MaxLimbs == 2

\* largest shift count passed to operator<< and operator>>
MaxShift == 5

\* largest length of a string passed to the string constructor
MaxStrLen == 3

\* ------------------------------------------------------- program constants
\* DIGIT_BITS, the width of digit_type in bits: 32 in the source, scaled to 2
\* here; every other width below is derived from it as in the source
DIGIT_BITS == 2

RECURSIVE Pow2(_)
Pow2(n) == IF n = 0 THEN 1 ELSE 2 * Pow2(n - 1)

DIGIT_BASE == Pow2(DIGIT_BITS)

DIGIT_MAX_VALUE == DIGIT_BASE - 1

\* modulus of double_digit_type
DOUBLE_BASE == DIGIT_BASE * DIGIT_BASE

\* the radix of the string form: 10 in the source, scaled to 3 here so that
\* a digit fits the scaled digit_type
RADIX == 3

\* std::pow for integer arguments
RECURSIVE pow(_, _)
pow(b, e) == IF e = 0 THEN 1 ELSE b * pow(b, e - 1)

\* std::numeric_limits<digit_type>::digits10: the largest count of digits
\* such that every number of that many digits fits digit_type (9 in the
\* source)
RECURSIVE digits10(_)
digits10(v) == IF v < RADIX THEN 0 ELSE 1 + digits10(v \div RADIX)

DIGITS_10 == digits10(DIGIT_MAX_VALUE)

\* 1'000'000'000 in the source: RADIX to the power DIGITS_10
DIGIT_MOD10 == pow(RADIX, DIGITS_10)

\* std::numeric_limits<size_t>::max(), the default max_size of abs_subtract
SIZE_MAX == 1000000

Min(a, b) == IF a < b THEN a ELSE b

Max(a, b) == IF a > b THEN a ELSE b

\* ------------------------------------------------------------ the value type
BigInt(d, n) == [data |-> d, negative |-> n]

\* big_integer::big_integer()
default_ctor == BigInt(<<>>, FALSE)

\* the constructor without the push_back of the high limb
ctor_ull_mut(val, negative) ==
  IF val # 0 THEN BigInt(<<val % DIGIT_BASE>>, negative) ELSE BigInt(<<>>, negative)

\* big_integer::big_integer(unsigned long long val, bool negative)
ctor_ull(val, negative) ==
  IF val # 0
    THEN LET lo == val % DIGIT_BASE
             hi == val \div DIGIT_BASE
         IN BigInt(IF hi # 0 THEN <<lo, hi % DIGIT_BASE>> ELSE <<lo>>, negative)
    ELSE BigInt(<<>>, negative)

\* std::numeric_limits<long long>::min() / max() at the scaled width
LLONG_MIN == -(DOUBLE_BASE \div 2)

LLONG_MAX == (DOUBLE_BASE \div 2) - 1

\* big_integer::big_integer(long long val)
ctor_ll(val) ==
  ctor_ull(IF val = LLONG_MIN THEN LLONG_MAX + 1
           ELSE (IF val < 0 THEN -val ELSE val),
           val < 0)

is_zero(a) == a.data = <<>>

\* is_negative that reads the raw flag only
is_negative_mut(a) == a.negative

\* big_integer::is_negative
is_negative(a) == a.negative /\ ~is_zero(a)

RECURSIVE trim_data(_)
trim_data(d) ==
  IF d # <<>> /\ d[Len(d)] = 0 THEN trim_data(SubSeq(d, 1, Len(d) - 1)) ELSE d

trim(a) == [a EXCEPT !.data = trim_data(a.data)]

\* negate that sets the flag instead of flipping it
negate_mut(a) == [a EXCEPT !.negative = TRUE]

negate(a) == [a EXCEPT !.negative = ~a.negative]

swap(pair) == <<pair[2], pair[1]>>

\* std::vector::insert(begin(), n, 0)
RECURSIVE zeros(_)
zeros(n) == IF n <= 0 THEN <<>> ELSE <<0>> \o zeros(n - 1)

\* std::vector::resize(n, 0)
resize(d, n) == IF n <= Len(d) THEN SubSeq(d, 1, n) ELSE d \o zeros(n - Len(d))

\* ------------------------------------------------------- unsigned primitives
\* abs_add, first loop: both operands have limb i
RECURSIVE abs_add_loop1(_, _, _, _, _)
abs_add_loop1(long, short, out, i, carry) ==
  IF i >= Len(short) THEN [out |-> out, carry |-> carry]
  ELSE LET c == (carry + short[i + 1] + long[i + 1]) % DOUBLE_BASE
       IN abs_add_loop1(long, short, [out EXCEPT ![i + 1] = c % DIGIT_BASE],
                        i + 1, c \div DIGIT_BASE)

\* abs_add, second loop: only the longer operand has limb i
RECURSIVE abs_add_loop2(_, _, _, _)
abs_add_loop2(long, out, i, carry) ==
  IF i >= Len(long) THEN [out |-> out, carry |-> carry]
  ELSE LET c == (carry + long[i + 1]) % DOUBLE_BASE
       IN abs_add_loop2(long, [out EXCEPT ![i + 1] = c % DIGIT_BASE],
                        i + 1, c \div DIGIT_BASE)

\* this->abs_add(rhs, output) with output aliasing this or rhs; the result
\* is the new state of output.  outIsThis tells which operand output is.
abs_add(this, rhs, outIsThis) ==
  LET swapped == Len(this.data) < Len(rhs.data)
      long    == IF swapped THEN rhs ELSE this
      short   == IF swapped THEN this ELSE rhs
      output  == IF outIsThis THEN this ELSE rhs
      l1      == abs_add_loop1(long.data, short.data, output.data, 0, 0)
      l2      == abs_add_loop2(long.data, resize(l1.out, Len(long.data)),
                               Len(short.data), l1.carry)
  IN [output EXCEPT !.data = IF l2.carry # 0 THEN Append(l2.out, l2.carry % DIGIT_BASE)
                                ELSE l2.out]

\* abs_subtract, first loop: i < min(max_size, rhs.size)
RECURSIVE abs_subtract_loop1(_, _, _, _, _, _)
abs_subtract_loop1(a, r, out, i, size, borrow) ==
  IF i >= size THEN [out |-> out, borrow |-> borrow, i |-> i]
  ELSE LET diff == (a[i + 1] - r[i + 1] - borrow) % DOUBLE_BASE
       IN abs_subtract_loop1(a, r, [out EXCEPT ![i + 1] = diff % DIGIT_BASE], i + 1, size,
                             IF diff > DIGIT_MAX_VALUE THEN 1 ELSE 0)

\* abs_subtract, second loop: i < min(max_size, this.size) && borrow.
\* output._data[i] with i >= output._data.size() is a write past the end of
\* the vector: it never becomes an element of it, and oob records it.
RECURSIVE abs_subtract_loop2(_, _, _, _, _, _)
abs_subtract_loop2(a, out, i, size, borrow, oob) ==
  IF i >= size \/ borrow = 0 THEN [out |-> out, oob |-> oob]
  ELSE LET diff == (a[i + 1] - borrow) % DOUBLE_BASE
           nb   == IF diff > DIGIT_MAX_VALUE THEN 1 ELSE 0
       IN IF i + 1 <= Len(out)
            THEN abs_subtract_loop2(a, [out EXCEPT ![i + 1] = diff % DIGIT_BASE],
                                    i + 1, size, nb, oob)
            ELSE abs_subtract_loop2(a, out, i + 1, size, nb, TRUE)

\* this->abs_subtract(rhs, output, max_size) with output aliasing this or rhs
abs_subtract_run(this, rhs, outIsThis, max_size) ==
  LET output == IF outIsThis THEN this ELSE rhs
      l1     == abs_subtract_loop1(this.data, rhs.data, output.data, 0,
                                   Min(max_size, Len(rhs.data)), 0)
  IN abs_subtract_loop2(this.data, l1.out, l1.i, Min(max_size, Len(this.data)),
                        l1.borrow, FALSE)

abs_subtract(this, rhs, outIsThis, max_size) ==
  BigInt(trim_data(abs_subtract_run(this, rhs, outIsThis, max_size).out), is_negative(this))

\* whether that call writes past the end of output._data
abs_subtract_oob(this, rhs, outIsThis, max_size) ==
  abs_subtract_run(this, rhs, outIsThis, max_size).oob

\* ---------------------------------------------------------- signed addition
\* the pop_back loop of operator+= (equal sizes): strips equal high limbs
RECURSIVE pop_equal(_, _)
pop_equal(d, r) ==
  IF d # <<>> /\ d[Len(d)] = r[Len(d)] THEN pop_equal(SubSeq(d, 1, Len(d) - 1), r) ELSE d

\* the abs_subtract call operator+= makes when the signs differ (none: the
\* equal high limbs cancelled everything and operator+= returns at once)
plus_assign_call(this, rhs) ==
  IF Len(this.data) = Len(rhs.data)
    THEN LET p == [this EXCEPT !.data = pop_equal(this.data, rhs.data)]
         IN IF p.data = <<>>
              THEN [none |-> TRUE, this |-> p, rhs |-> rhs, outIsThis |-> TRUE, max_size |-> 0]
            ELSE IF p.data[Len(p.data)] > rhs.data[Len(p.data)]
              THEN [none |-> FALSE, this |-> p, rhs |-> rhs, outIsThis |-> TRUE,
                    max_size |-> Len(p.data)]
              ELSE [none |-> FALSE, this |-> rhs, rhs |-> p, outIsThis |-> FALSE,
                    max_size |-> Len(p.data)]
    ELSE IF Len(this.data) > Len(rhs.data)
      THEN [none |-> FALSE, this |-> this, rhs |-> rhs, outIsThis |-> TRUE,
            max_size |-> SIZE_MAX]
      ELSE [none |-> FALSE, this |-> rhs, rhs |-> this, outIsThis |-> FALSE,
            max_size |-> SIZE_MAX]

\* big_integer::operator+= (rhs a distinct instance): the new *this
plus_assign(this, rhs) ==
  IF is_negative(this) = is_negative(rhs)
    THEN abs_add(this, rhs, TRUE)
    ELSE LET c == plus_assign_call(this, rhs)
         IN IF c.none THEN c.this
            ELSE abs_subtract(c.this, c.rhs, c.outIsThis, c.max_size)

\* whether operator+= writes past the end of _data
plus_assign_oob(this, rhs) ==
  IF is_negative(this) = is_negative(rhs) THEN FALSE
  ELSE LET c == plus_assign_call(this, rhs)
       IN IF c.none THEN FALSE
          ELSE abs_subtract_oob(c.this, c.rhs, c.outIsThis, c.max_size)

\* big_integer::operator-=
minus_assign(this, rhs) == negate(plus_assign(negate(this), rhs))

minus_assign_oob(this, rhs) == plus_assign_oob(negate(this), rhs)

\* operator+(a, b), operator-(a, b): big_integer(a) += b, big_integer(a) -= b
op_plus(a, b) == plus_assign(a, b)

op_minus(a, b) == minus_assign(a, b)

\* big_integer::operator-() const
unary_minus(a) == negate(a)

\* ------------------------------------------------------------- multiplication
\* abs_mul, inner loop over the limbs j of rhs for row i
RECURSIVE abs_mul_inner(_, _, _, _, _, _)
abs_mul_inner(d, r, i, j, data_i, carry) ==
  IF j >= Len(r) THEN [d |-> d, carry |-> carry]
  ELSE LET res == (data_i * r[j + 1] + d[i + j + 1] + carry) % DOUBLE_BASE
       IN abs_mul_inner([d EXCEPT ![i + j + 1] = res % DIGIT_BASE], r, i, j + 1, data_i,
                        res \div DIGIT_BASE)

\* abs_mul, outer loop over the limbs i of the original *this
RECURSIVE abs_mul_outer(_, _, _, _)
abs_mul_outer(d, r, i, this_size) ==
  IF i >= this_size THEN d
  ELSE LET row == abs_mul_inner(d, r, i, 0, d[i + Len(r) + 1], 0)
       IN abs_mul_outer([row.d EXCEPT ![i + Len(r) + 1] = row.carry], r, i + 1, this_size)

\* big_integer::abs_mul (rhs a distinct instance)
abs_mul(this, rhs) ==
  [this EXCEPT !.data = trim_data(abs_mul_outer(zeros(Len(rhs.data)) \o this.data,
                                                rhs.data, 0, Len(this.data)))]

\* operator*= that overwrites the sign with the sign of rhs
mul_assign_mut(this, rhs) ==
  abs_mul([this EXCEPT !.negative = is_negative(rhs)], rhs)

\* big_integer::operator*=
mul_assign(this, rhs) ==
  abs_mul([this EXCEPT !.negative = (this.negative # is_negative(rhs))], rhs)

\* operator*(a, b)
op_mul(a, b) == mul_assign(a, b)

\* ---------------------------------------------------------- limb primitives
RECURSIVE abs_add_int_loop(_, _, _)
abs_add_int_loop(d, i, s) ==
  IF i >= Len(d) THEN [d |-> d, s |-> s]
  ELSE LET t == (s + d[i + 1]) % DOUBLE_BASE
       IN abs_add_int_loop([d EXCEPT ![i + 1] = t % DIGIT_BASE], i + 1, t \div DIGIT_BASE)

\* big_integer::abs_add_int
abs_add_int(this, rhs) ==
  LET l == abs_add_int_loop(this.data, 0, rhs)
  IN [this EXCEPT !.data = IF l.s # 0 THEN Append(l.d, l.s % DIGIT_BASE) ELSE l.d]

RECURSIVE abs_sub_int_loop(_, _, _)
abs_sub_int_loop(d, i, borrow) ==
  IF i >= Len(d) THEN d
  ELSE LET diff == (d[i + 1] - borrow) % DOUBLE_BASE
       IN abs_sub_int_loop([d EXCEPT ![i + 1] = diff % DIGIT_BASE], i + 1,
                           IF diff > DIGIT_MAX_VALUE THEN 1 ELSE 0)

\* big_integer::abs_sub_int
abs_sub_int(this, rhs) ==
  [this EXCEPT !.data = trim_data(abs_sub_int_loop(this.data, 0, rhs))]

RECURSIVE abs_mul_int_loop(_, _, _, _)
abs_mul_int_loop(d, i, rhs, s) ==
  IF i >= Len(d) THEN [d |-> d, s |-> s]
  ELSE LET t == (d[i + 1] * rhs + s) % DOUBLE_BASE
       IN abs_mul_int_loop([d EXCEPT ![i + 1] = t % DIGIT_BASE], i + 1, rhs, t \div DIGIT_BASE)

\* big_integer::abs_mul_int
abs_mul_int(this, rhs) ==
  LET l == abs_mul_int_loop(this.data, 0, rhs, 0)
  IN [this EXCEPT !.data = trim_data(IF l.s # 0 THEN Append(l.d, l.s % DIGIT_BASE) ELSE l.d)]

\* abs_divide_int, the loop from the highest limb (index i) down
RECURSIVE abs_divide_int_loop(_, _, _, _)
abs_divide_int_loop(d, i, val, remainder) ==
  IF i < 1 THEN [d |-> d, remainder |-> remainder]
  ELSE LET r == ((remainder * DIGIT_BASE) % DOUBLE_BASE) + d[i]
       IN abs_divide_int_loop([d EXCEPT ![i] = (r \div val) % DIGIT_BASE], i - 1, val, r % val)

\* big_integer::abs_divide_int: the new *this; abs_divide_int_rem is the
\* returned remainder
abs_divide_int(this, val) ==
  [this EXCEPT !.data = trim_data(abs_divide_int_loop(this.data, Len(this.data), val, 0).d)]

abs_divide_int_rem(this, val) ==
  abs_divide_int_loop(this.data, Len(this.data), val, 0).remainder % DIGIT_BASE

\* ----------------------------------------------------------------- comparison
\* std::lexicographical_compare over the reversed limb ranges: a and b are
\* read from their highest limb (index Len - k) downwards
RECURSIVE lexicographical_compare_r(_, _, _)
lexicographical_compare_r(a, b, k) ==
  IF k >= Len(b) THEN FALSE
  ELSE IF k >= Len(a) THEN TRUE
  ELSE IF a[Len(a) - k] < b[Len(b) - k] THEN TRUE
  ELSE IF b[Len(b) - k] < a[Len(a) - k] THEN FALSE
  ELSE lexicographical_compare_r(a, b, k + 1)

\* operator==
op_eq(a, b) == is_negative(a) = is_negative(b) /\ a.data = b.data

\* operator!=
op_ne(a, b) == ~op_eq(a, b)

\* operator> with the equal-size branch written as an exclusive or with the
\* sign
op_gt_mut(a, b) ==
  IF ~is_negative(a) /\ is_negative(b) THEN TRUE
  ELSE IF is_negative(a) /\ ~is_negative(b) THEN FALSE
  ELSE IF Len(a.data) # Len(b.data)
    THEN (Len(a.data) > Len(b.data)) # is_negative(a)
  ELSE lexicographical_compare_r(b.data, a.data, 0) # is_negative(a)

\* operator>
op_gt(a, b) ==
  IF ~is_negative(a) /\ is_negative(b) THEN TRUE
  ELSE IF is_negative(a) /\ ~is_negative(b) THEN FALSE
  ELSE IF Len(a.data) # Len(b.data)
    THEN (Len(a.data) > Len(b.data)) # is_negative(a)
  ELSE IF is_negative(a)
    THEN lexicographical_compare_r(a.data, b.data, 0)
    ELSE lexicographical_compare_r(b.data, a.data, 0)

\* operator<
op_lt(a, b) == op_gt(b, a)

\* operator<=
op_le(a, b) == ~op_gt(a, b)

\* operator>=
op_ge(a, b) == op_le(b, a)

\* ------------------------------------------------------ increment / decrement
\* big_integer::operator++()
pre_increment(this) ==
  IF ~is_negative(this) THEN abs_add_int(this, 1) ELSE abs_sub_int(this, 1)

\* ------------------------------------------------------------------- division
\* floor(log2(v)) and ceil(log2(v)) for v >= 1
RECURSIVE FloorLog2(_)
FloorLog2(v) == IF v <= 1 THEN 0 ELSE 1 + FloorLog2(v \div 2)

CeilLog2(v) == IF Pow2(FloorLog2(v)) = v THEN FloorLog2(v) ELSE FloorLog2(v) + 1

\* normalize that never shifts
normalize_k_mut(this) == 0

\* big_integer::normalize: the shift count it returns.  The double
\* log2(DIGIT_BASE / 2) - log2(back) is positive here and is truncated.
normalize_k(this) ==
  LET back == this.data[Len(this.data)]
  IN IF back >= DIGIT_BASE \div 2 THEN 0
     ELSE LET k == (DIGIT_BITS - 1) - CeilLog2(back)
          IN IF (back * Pow2(k)) % DIGIT_BASE < DIGIT_BASE \div 2 THEN k + 1 ELSE k

\* operator<<= that forgets to insert the rhs / DIGIT_BITS zero limbs
shl_assign_mut(this, rhs) ==
  abs_mul_int(this, Pow2(rhs % DIGIT_BITS) % DIGIT_BASE)

\* big_integer::operator<<=
shl_assign(this, rhs) ==
  abs_mul_int([this EXCEPT !.data = zeros(rhs \div DIGIT_BITS) \o this.data],
              Pow2(rhs % DIGIT_BITS) % DIGIT_BASE)

\* big_integer::normalize: the new *this
normalize(this) == shl_assign(this, normalize_k(this))

\* div_rem, the correction loop: while (*this < 0) { --*q_it; *this += rhs; }
\* n counts its iterations
RECURSIVE div_rem_correct(_, _, _, _, _)
div_rem_correct(this, rhs, qd, oob, n) ==
  IF op_lt(this, ctor_ll(0))
    THEN div_rem_correct(plus_assign(this, rhs), rhs, (qd - 1) % DIGIT_BASE,
                         oob \/ plus_assign_oob(this, rhs), n + 1)
    ELSE [this |-> this, qd |-> qd, oob |-> oob, n |-> n]

\* div_rem, lines 511-513: the estimate of the next quotient digit from the
\* two highest limbs of the working dividend and the highest limb of rhs
div_rem_estimate(this, rhs) ==
  Min((((this.data[Len(this.data)] * DIGIT_BASE) % DOUBLE_BASE) + this.data[Len(this.data) - 1])
         \div rhs.data[Len(rhs.data)],
      DIGIT_BASE - 1)

\* div_rem, lines 514-518: *this -= *q_it * rhs and the correction loop
div_rem_digit(this, rhs, qd, oob) ==
  div_rem_correct(minus_assign(this, op_mul(ctor_ull(qd, FALSE), rhs)), rhs, qd,
                  oob \/ minus_assign_oob(this, op_mul(ctor_ull(qd, FALSE), rhs)), 0)

\* div_rem, the digit loop; qi is the position q_it points at (q[qi]),
\* qi = 0 is q.rend(); div_rem_next stores the digit c and moves on
RECURSIVE div_rem_loop(_, _, _, _, _, _)
RECURSIVE div_rem_next(_, _, _, _, _)
div_rem_loop(this, rhs, q, qi, oob, corr) ==
  IF qi < 1 \/ Len(this.data) < 2
    THEN [this |-> this, q |-> q, oob |-> oob, corr |-> corr]
    ELSE div_rem_next([rhs EXCEPT !.data = Tail(rhs.data)], q, qi, corr,
                      div_rem_digit(this, [rhs EXCEPT !.data = Tail(rhs.data)],
                                    div_rem_estimate(this, [rhs EXCEPT !.data = Tail(rhs.data)]),
                                    oob))

div_rem_next(rhs, q, qi, corr, c) ==
  div_rem_loop(c.this, rhs, [q EXCEPT ![qi] = c.qd], qi - 1, c.oob, Max(corr, c.n))

\* the signs with | in place of ^
div_rem_signs_mut(this, rhs) ==
  [this_sign |-> is_negative(this), result_sign |-> (is_negative(this) \/ is_negative(rhs))]

\* div_rem, lines 488-489: this_sign and result_sign
div_rem_signs(this, rhs) ==
  [this_sign |-> is_negative(this), result_sign |-> (is_negative(this) # is_negative(rhs))]

\* div_rem, lines 521-530: l is the state the digit loop ends in
div_rem_finish(sg, k, l) ==
  [thrown |-> FALSE,
   quot   |-> BigInt(trim_data(l.q), sg.result_sign),
   rem    |-> [abs_divide_int(BigInt(trim_data(l.this.data), FALSE), Pow2(k) % DIGIT_BASE)
                 EXCEPT !.negative = sg.this_sign],
   oob    |-> l.oob,
   corr   |-> l.corr]

\* div_rem, lines 503-519: the initial high digit, then the digit loop; rhs
\* is the divisor shifted up by m limbs
div_rem_digits(this, rhs, m) ==
  IF op_ge(this, rhs)
    THEN div_rem_loop(abs_subtract(this, rhs, TRUE, SIZE_MAX), rhs,
                      [zeros(m + 1) EXCEPT ![m + 1] = 1], m,
                      abs_subtract_oob(this, rhs, TRUE, SIZE_MAX), 0)
    ELSE div_rem_loop(this, rhs, zeros(m + 1), m, FALSE, 0)

\* div_rem, lines 497-501: m and the divisor shifted up by m limbs
div_rem_aligned(sg, k, this, rhs) ==
  div_rem_finish(sg, k,
    div_rem_digits(this,
                   [rhs EXCEPT !.data = zeros(Len(this.data) - Len(rhs.data)) \o rhs.data],
                   Len(this.data) - Len(rhs.data)))

\* div_rem past the zero check and the early exit: Knuth's algorithm D on
\* the magnitudes, both shifted left by k = rhs.normalize()
div_rem_long(this, rhs) ==
  div_rem_aligned(div_rem_signs(this, rhs),
                  normalize_k([rhs EXCEPT !.negative = FALSE]),
                  shl_assign([this EXCEPT !.negative = FALSE],
                             normalize_k([rhs EXCEPT !.negative = FALSE])),
                  normalize([rhs EXCEPT !.negative = FALSE]))

\* div_rem that clears the signs before it checks the divisor
div_rem_mut(this, rhs) ==
  IF is_zero(rhs)
    THEN [thrown |-> TRUE, quot |-> [this EXCEPT !.negative = FALSE], rem |-> default_ctor,
          oob |-> FALSE, corr |-> 0]
  ELSE IF is_zero(this) \/ Len(this.data) < Len(rhs.data)
    THEN [thrown |-> FALSE, quot |-> default_ctor, rem |-> this, oob |-> FALSE, corr |-> 0]
  ELSE div_rem_long(this, rhs)

\* big_integer::div_rem (rhs is taken by value).  thrown: it threw
\* std::invalid_argument; quot: the state it leaves *this in; rem: the value
\* it returns; oob: a write past the end of a vector happened on the way;
\* corr: the longest run of the correction loop
div_rem(this, rhs) ==
  IF is_zero(rhs)
    THEN [thrown |-> TRUE, quot |-> this, rem |-> default_ctor, oob |-> FALSE, corr |-> 0]
  ELSE IF is_zero(this) \/ Len(this.data) < Len(rhs.data)
    THEN [thrown |-> FALSE, quot |-> default_ctor, rem |-> this, oob |-> FALSE, corr |-> 0]
  ELSE div_rem_long(this, rhs)

\* big_integer::operator/=: the new *this
div_assign(this, rhs) == div_rem(this, rhs).quot

\* big_integer::operator%=: the new *this (the swap is not reached on a throw)
rem_assign(this, rhs) ==
  LET d == div_rem(this, rhs) IN IF d.thrown THEN d.quot ELSE d.rem

\* operator/(a, b), operator%(a, b): big_integer(a) /= b, big_integer(a) %= b
op_div(a, b) == div_assign(a, b)

op_rem(a, b) == rem_assign(a, b)

\* big_integer::operator++(int): the new *this (the old one is returned)
post_increment(this) == pre_increment(this)

\* --------------------------------------------------------------------- shifts
\* operator<<(a, b): big_integer(a) <<= b
op_shl(a, b) == shl_assign(a, b)

\* operator>>=, its last statement: if (is_negative()) { abs_add_int(1); }
shr_assign_round(this) == IF is_negative(this) THEN abs_add_int(this, 1) ELSE this

\* big_integer::operator>>=
shr_assign(this, rhs) ==
  LET to_erase == rhs \div DIGIT_BITS
  IN IF to_erase > Len(this.data)
       THEN [this EXCEPT !.data = <<>>]
       ELSE shr_assign_round(
              abs_divide_int([this EXCEPT !.data = SubSeq(this.data, to_erase + 1, Len(this.data))],
                             Pow2(rhs % DIGIT_BITS)))

\* operator>>(a, b): big_integer(a) >>= b
op_shr(a, b) == shr_assign(a, b)

\* ------------------------------------------------------------------- bitwise
\* std::bit_and<>, std::bit_or<>, std::bit_xor<> (f is "and", "or", "xor")
\* on two bools
bit_op_bool(f, p, q) ==
  IF f = "and" THEN p /\ q ELSE IF f = "or" THEN p \/ q ELSE p # q

\* the same on two digit_type values, bit by bit over w bits
RECURSIVE bit_op(_, _, _, _)
bit_op(f, a, b, w) ==
  IF w = 0 THEN 0
  ELSE (IF bit_op_bool(f, a % 2 = 1, b % 2 = 1) THEN 1 ELSE 0)
         + 2 * bit_op(f, a \div 2, b \div 2, w - 1)

\* big_integer::twos_complement: the returned digit and the new carry
twos_complement(neg, digit, carry) ==
  IF ~neg THEN [digit |-> digit, carry |-> carry]
  ELSE LET r == (carry + (DIGIT_MAX_VALUE - digit)) % DOUBLE_BASE
       IN [digit |-> r % DIGIT_BASE, carry |-> (r \div DIGIT_BASE) % DIGIT_BASE]

\* bitwise_operation, the loop over the limbs of *this: a and b are the
\* converted digits with their carries, r the converted result digit
RECURSIVE bitwise_operation_loop(_, _, _, _, _, _, _, _)
RECURSIVE bitwise_operation_store(_, _, _, _, _, _, _, _)
bitwise_operation_digit(this, rhs, f, result_negative, i, a, b, res_carry) ==
  bitwise_operation_store(this, rhs, f, result_negative, i, a.carry, b.carry,
     twos_complement(result_negative, bit_op(f, a.digit, b.digit, DIGIT_BITS), res_carry))

bitwise_operation_loop(this, rhs, f, result_negative, i, a_carry, b_carry, res_carry) ==
  IF i >= Len(this.data) THEN this
  ELSE bitwise_operation_digit(this, rhs, f, result_negative, i,
          twos_complement(is_negative(this), this.data[i + 1], a_carry),
          twos_complement(is_negative(rhs),
                          IF i < Len(rhs.data) THEN rhs.data[i + 1] ELSE 0, b_carry),
          res_carry)

bitwise_operation_store(this, rhs, f, result_negative, i, a_carry, b_carry, r) ==
  bitwise_operation_loop([this EXCEPT !.data[i + 1] = r.digit], rhs, f,
                         result_negative, i + 1, a_carry, b_carry, r.carry)

\* bitwise_operation without the final trim()
bitwise_operation_mut(this, rhs, f) ==
  [bitwise_operation_loop(
     [this EXCEPT !.data = resize(this.data, Max(Len(this.data), Len(rhs.data)))],
     rhs, f, bit_op_bool(f, is_negative(this), is_negative(rhs)), 0, 1, 1, 1)
   EXCEPT !.negative = bit_op_bool(f, is_negative(this), is_negative(rhs))]

\* big_integer::bitwise_operation
bitwise_operation(this, rhs, f) ==
  trim([bitwise_operation_loop(
          [this EXCEPT !.data = resize(this.data, Max(Len(this.data), Len(rhs.data)))],
          rhs, f, bit_op_bool(f, is_negative(this), is_negative(rhs)), 0, 1, 1, 1)
        EXCEPT !.negative = bit_op_bool(f, is_negative(this), is_negative(rhs))])

\* operator&=, operator|=, operator^=
and_assign(this, rhs) == bitwise_operation(this, rhs, "and")

or_assign(this, rhs) == bitwise_operation(this, rhs, "or")

xor_assign(this, rhs) == bitwise_operation(this, rhs, "xor")

\* operator&(a, b), operator|(a, b), operator^(a, b)
op_and(a, b) == and_assign(a, b)

op_or(a, b) == or_assign(a, b)

op_xor(a, b) == xor_assign(a, b)

\* big_integer::operator--()
pre_decrement(this) ==
  IF is_zero(this) THEN BigInt(Append(this.data, 1), TRUE)
  ELSE negate(pre_increment(negate(this)))

\* big_integer::operator--(int): the new *this (the old one is returned)
post_decrement(this) == pre_decrement(this)

\* big_integer::operator~
op_not(a) == pre_decrement(negate(a))

\* -------------------------------------------------------------------- strings
\* a std::string is a sequence of characters; the digit characters in the
\* order of their values
Digits == <<"0", "1", "2", "3", "4", "5", "6", "7", "8", "9">>

\* the value of the digit character c, or -1 when c is not a digit
digit_of(c) ==
  IF \E d \in 0..(RADIX - 1) : Digits[d + 1] = c
    THEN CHOOSE d \in 0..(RADIX - 1) : Digits[d + 1] = c
    ELSE -1

\* std::from_chars(&str[ptr], &str[last], digit) for an unsigned digit: the
\* longest run of digits from ptr on; ptr and last are 0-based offsets
RECURSIVE from_chars(_, _, _, _)
from_chars(s, ptr, last, value) ==
  IF ptr < last /\ digit_of(s[ptr + 1]) >= 0
    THEN from_chars(s, ptr + 1, last, value * RADIX + digit_of(s[ptr + 1]))
    ELSE [ptr |-> ptr, value |-> value]

\* big_integer::big_integer(const std::string&), the loop over the chunks of
\* DIGITS_10 characters; r is what from_chars returned for [index, end)
RECURSIVE ctor_string_loop(_, _, _)
\* the chunk step without the test of res.ptr against &str[end]
ctor_string_chunk_mut(this, s, index, end, r) ==
  ctor_string_loop(
    abs_add_int(abs_mul_int(this, pow(RADIX, end - index) % DIGIT_BASE),
                r.value % DIGIT_BASE),
    s, end)

ctor_string_chunk(this, s, index, end, r) ==
  IF r.ptr # end THEN [thrown |-> TRUE, value |-> default_ctor]
  ELSE ctor_string_loop(
         abs_add_int(abs_mul_int(this, pow(RADIX, end - index) % DIGIT_BASE),
                     r.value % DIGIT_BASE),
         s, end)

ctor_string_loop(this, s, index) ==
  IF index = Len(s) THEN [thrown |-> FALSE, value |-> trim(this)]
  ELSE ctor_string_chunk(this, s, index, Min(index + DIGITS_10, Len(s)),
                         from_chars(s, index, Min(index + DIGITS_10, Len(s)), 0))

\* big_integer::big_integer(const std::string&): thrown tells whether
\* std::invalid_argument was thrown, value is the instance constructed
ctor_string(s) ==
  LET neg == s # <<>> /\ s[1] = "-"
      index == IF neg THEN 1 ELSE 0
  IN IF index = Len(s) THEN [thrown |-> TRUE, value |-> default_ctor]
     ELSE ctor_string_loop(IF neg THEN negate(default_ctor) ELSE default_ctor, s, index)

\* to_string, the inner loop: the digits of rem, lowest first
RECURSIVE to_string_digits(_, _, _)
to_string_digits(r, rem, len) ==
  IF rem # 0
    THEN to_string_digits(Append(r, Digits[(rem % RADIX) + 1]), rem \div RADIX, len - 1)
    ELSE [res |-> r, len |-> len]

\* to_string, the outer loop: copy is the quotient left, r the chunk written
RECURSIVE to_string_loop(_, _)
\* the outer loop without the padding of a chunk to DIGITS_10 digits
to_string_pad_mut(copy, r) == to_string_loop(copy, r.res)

to_string_pad(copy, r) ==
  to_string_loop(copy, IF ~is_zero(copy) THEN r.res \o [i \in 1..r.len |-> "0"]
                       ELSE r.res)

to_string_loop(copy, r) ==
  IF is_zero(copy) THEN r
  ELSE to_string_pad(abs_divide_int(copy, DIGIT_MOD10),
                     to_string_digits(r, abs_divide_int_rem(copy, DIGIT_MOD10), DIGITS_10))

\* std::reverse
reverse(s) == [i \in 1..Len(s) |-> s[Len(s) + 1 - i]]

\* to_string(const big_integer&)
to_string(a) ==
  IF is_zero(a) THEN <<"0">>
  ELSE reverse(IF is_negative(a) THEN Append(to_string_loop(a, <<>>), "-")
               ELSE to_string_loop(a, <<>>))

\* ============================================================ socow_vector
\* socow_vector<T, SMALL_SIZE>: a vector with a small buffer inside the
\* object and a reference-counted, copy-on-write buffer on the heap.
SMALL_SIZE == 2

\* the largest size a vector is grown to, and the values of T stored
MaxVecSize == 3

T == {1, 2}

\* what a read of a T that was never constructed gives
Garbage == 0

\* the vectors of the program, and the locals named temp of the member
\* functions (temp2 is the temp of swap, which copy_and_swap calls while
\* its own temp is alive)
Names == {"a", "b"}

Temps == {"temp", "temp2"}

\* the heap: the addresses at which a shared_buffer can be allocated
BufIds == 1..(Cardinality(Names) + 2)

\* no shared_buffer at this address
FreeBuf == [allocated |-> FALSE, capacity |-> 0, ref_count |-> 0, data |-> <<>>]

\* socow_vector() : _size(0), _is_small(true); small_data holds the
\* constructed elements of _small_data, buf is _dynamic_buffer
EmptyVec == [live |-> TRUE, is_small |-> TRUE, size |-> 0, small_data |-> <<>>, buf |-> 0]

\* a socow_vector whose lifetime has not begun or has ended
DeadVec == [EmptyVec EXCEPT !.live = FALSE]

\* elements first..last (from 1) of the storage d
elements(d, first, last) ==
  [i \in 1..(last - first + 1) |-> IF first + i - 1 <= Len(d) THEN d[first + i - 1] ELSE Garbage]

\* shared_buffer::allocate at address id
allocate(w, id, capacity) ==
  [w EXCEPT !.b[id] = [allocated |-> TRUE, capacity |-> capacity, ref_count |-> 0, data |-> <<>>]]

\* the address operator new returns
new_buffer(w) == CHOOSE id \in BufIds : ~w.b[id].allocated /\ \A j \in 1..(id - 1) : w.b[j].allocated

\* shared_buffer::release_ref; ref_count is a size_t
release_ref(w, id, size) ==
  IF (w.b[id].ref_count - 1) % (SIZE_MAX + 1) = 0
    THEN [w EXCEPT !.b[id] = FreeBuf]
    ELSE [w EXCEPT !.b[id].ref_count = (@ - 1) % (SIZE_MAX + 1)]

is_small(w, t) == w.v[t].is_small

\* is_shared that never sees a second owner
is_shared_mut(w, t) == FALSE

is_shared(w, t) == ~is_small(w, t) /\ w.b[w.v[t].buf].ref_count > 1

\* unsafe_data(): the storage the vector reads and writes
unsafe_data(w, t) == IF is_small(w, t) THEN w.v[t].small_data ELSE w.b[w.v[t].buf].data

\* the elements [0, size()) read through data() const
contents(w, t) == elements(unsafe_data(w, t), 1, w.v[t].size)

\* the storage of t becomes d (constructions, destructions and assignments
\* through unsafe_data())
store(w, t, d) ==
  IF is_small(w, t) THEN [w EXCEPT !.v[t].small_data = d]
  ELSE [w EXCEPT !.b[w.v[t].buf].data = d]

set_size(w, t, n) == [w EXCEPT !.v[t].size = n]

capacity(w, t) == IF is_small(w, t) THEN SMALL_SIZE ELSE w.b[w.v[t].buf].capacity

\* socow_vector::clear_and_make_small
clear_and_make_small(w, t) ==
  IF is_small(w, t)
    THEN [w EXCEPT !.v[t].small_data = <<>>, !.v[t].size = 0]
    ELSE [release_ref(w, w.v[t].buf, w.v[t].size)
            EXCEPT !.v[t].size = 0, !.v[t].is_small = TRUE, !.v[t].buf = 0]

\* socow_vector::assign_buffer
assign_buffer(w, t, new_buf) ==
  [clear_and_make_small(w, t)
     EXCEPT !.v[t].size = w.v[t].size, !.v[t].buf = new_buf, !.v[t].is_small = FALSE,
            !.b[new_buf].ref_count = @ + 1]

\* socow_vector(size_t initial_capacity), the private constructor
socow_ctor(w, t, initial_capacity) ==
  IF initial_capacity > SMALL_SIZE
    THEN assign_buffer(allocate([w EXCEPT !.v[t] = EmptyVec], new_buffer(w), initial_capacity),
                       t, new_buffer(w))
    ELSE [w EXCEPT !.v[t] = EmptyVec]

\* ~socow_vector
socow_dtor(w, t) == [clear_and_make_small(w, t) EXCEPT !.v[t] = DeadVec]

\* socow_vector::big_to_small
big_to_small(w, t, other) ==
  [release_ref([w EXCEPT !.v[t].small_data = contents(w, other)], w.v[t].buf, w.v[t].size)
     EXCEPT !.v[t].is_small = TRUE, !.v[t].buf = 0]

\* operator=, both small: the elements of other up to min_size go through
\* a temp, the rest is copied or destroyed in place
assign_small(w, t, other) ==
  LET min_size == Min(w.v[t].size, w.v[other].size)
  IN [w EXCEPT !.v[t].small_data =
        elements(w.v[other].small_data, 1, min_size)
          \o (IF w.v[other].size > w.v[t].size
                THEN elements(w.v[other].small_data, w.v[t].size + 1, w.v[other].size)
                ELSE <<>>)]

\* socow_vector::operator=
socow_assign(w, t, other) ==
  IF other = t THEN w
  ELSE set_size(IF ~is_small(w, other) THEN assign_buffer(w, t, w.v[other].buf)
                ELSE IF ~is_small(w, t) THEN big_to_small(w, t, other)
                ELSE assign_small(w, t, other),
                t, w.v[other].size)

\* socow_vector(const socow_vector& other), its first branch
copy_ctor_dynamic(w, t, other) ==
  set_size(assign_buffer([w EXCEPT !.v[t] = EmptyVec], t, w.v[other].buf), t, w.v[other].size)

\* swap, both small
swap_small(w, t, other) ==
  LET min_size == Min(w.v[t].size, w.v[other].size)
      max_size == Max(w.v[t].size, w.v[other].size)
      from     == IF w.v[t].size < w.v[other].size THEN other ELSE t
      to       == IF w.v[t].size < w.v[other].size THEN t ELSE other
      moved    == [w EXCEPT !.v[to].small_data =
                               elements(@, 1, min_size)
                                 \o elements(w.v[from].small_data, min_size + 1, max_size),
                            !.v[from].small_data = elements(@, 1, min_size),
                            !.v[t].size = w.v[other].size,
                            !.v[other].size = w.v[t].size]
  IN [moved EXCEPT !.v[t].small_data =
                      elements(moved.v[other].small_data, 1, min_size)
                        \o elements(@, min_size + 1, Len(@)),
                   !.v[other].small_data =
                      elements(moved.v[t].small_data, 1, min_size)
                        \o elements(@, min_size + 1, Len(@))]

\* swap, *this dynamic and other small: socow_vector temp = *this;
\* *this = other; other = temp;
swap_dynamic_small(w, t, other) ==
  socow_dtor(socow_assign(socow_assign(copy_ctor_dynamic(w, "temp2", t), t, other),
                          other, "temp2"),
             "temp2")

\* socow_vector::swap
socow_swap(w, t, other) ==
  IF t = other THEN w
  ELSE IF is_small(w, t) /\ is_small(w, other) THEN swap_small(w, t, other)
  ELSE IF ~is_small(w, t) /\ is_small(w, other) THEN swap_dynamic_small(w, t, other)
  ELSE IF is_small(w, t) /\ ~is_small(w, other) THEN swap_dynamic_small(w, other, t)
  ELSE [w EXCEPT !.v[t].buf = w.v[other].buf, !.v[other].buf = w.v[t].buf,
                 !.v[t].size = w.v[other].size, !.v[other].size = w.v[t].size]

\* a socow_vector temp(cap) filled with the elements d
filled_temp(w, cap, d) ==
  set_size(store(socow_ctor(w, "temp", cap), "temp", d), "temp", Len(d))

\* socow_vector::copy_and_swap
copy_and_swap(w, t, other, new_capacity) ==
  socow_dtor(socow_swap(filled_temp(w, new_capacity, contents(w, other)), t, "temp"), "temp")

\* socow_vector(const socow_vector& other)
socow_copy_ctor(w, t, other) ==
  IF ~is_small(w, other) THEN copy_ctor_dynamic(w, t, other)
  ELSE copy_and_swap([w EXCEPT !.v[t] = EmptyVec], t, other, w.v[other].size)

\* the tail of the members that build a temp: *this = temp; and the end of
\* temp's lifetime
assign_temp(w, t) == socow_dtor(socow_assign(w, t, "temp"), "temp")

\* socow_vector::set_capacity
set_capacity(w, t, new_capacity) ==
  IF new_capacity < w.v[t].size THEN w
  ELSE IF ~is_small(w, t) /\ new_capacity <= SMALL_SIZE THEN big_to_small(w, t, t)
  ELSE IF new_capacity > capacity(w, t) \/ is_shared(w, t)
    THEN assign_temp(filled_temp(w, new_capacity, contents(w, t)), t)
  ELSE w

\* socow_vector::unshare
unshare(w, t) ==
  IF ~is_shared(w, t) THEN w ELSE set_capacity(w, t, w.b[w.v[t].buf].capacity)

\* socow_vector::shrink_to_fit
shrink_to_fit(w, t) ==
  IF w.v[t].size # capacity(w, t)
    THEN IF w.v[t].size > SMALL_SIZE THEN copy_and_swap(w, t, t, w.v[t].size)
         ELSE set_capacity(w, t, w.v[t].size)
    ELSE w

\* socow_vector::clear
clear(w, t) ==
  IF is_shared(w, t) THEN clear_and_make_small(w, t)
  ELSE set_size(store(w, t, <<>>), t, 0)

\* socow_vector::insert at index = pos - cbegin()
insert(w, t, index, value) ==
  IF w.v[t].size + 1 > capacity(w, t) \/ is_shared(w, t)
    THEN assign_temp(
           filled_temp(w,
                       IF w.v[t].size + 1 > capacity(w, t) THEN capacity(w, t) * 2
                       ELSE capacity(w, t),
                       elements(unsafe_data(w, t), 1, index) \o <<value>>
                         \o elements(unsafe_data(w, t), index + 1, w.v[t].size)),
           t)
    ELSE set_size(store(unshare(w, t), t,
                        elements(unsafe_data(w, t), 1, index) \o <<value>>
                          \o elements(unsafe_data(w, t), index + 1, w.v[t].size)),
                  t, w.v[t].size + 1)

\* socow_vector::erase(first, last), index = first - cbegin() and
\* last_index = last - cbegin()
erase(w, t, index, last_index) ==
  IF index = last_index THEN w
  ELSE IF is_shared(w, t)
    THEN assign_temp(
           filled_temp(w, w.b[w.v[t].buf].capacity,
                       elements(unsafe_data(w, t), 1, index)
                         \o elements(unsafe_data(w, t), last_index + 1, w.v[t].size)),
           t)
    ELSE set_size(store(w, t, elements(unsafe_data(w, t), 1, index)
                                \o elements(unsafe_data(w, t), last_index + 1, w.v[t].size)),
                  t, w.v[t].size - (last_index - index))

\* operator[](index) = value through the non-const overload
subscript_store(w, t, index, value) ==
  store(unshare(w, t), t, [unsafe_data(unshare(w, t), t) EXCEPT ![index + 1] = value])

\* =========================================================== the state machine
\* x, y   : two distinct big_integer instances
\* res    : the temporary returned by the last expression evaluated
\* aux    : a second temporary, for expressions evaluated in pairs
\* op     : the last operation
\* status : "ok", "DivisionByZero" (std::invalid_argument thrown by div_rem),
\*          "ParseError" (std::invalid_argument thrown by the string
\*          constructor) or "crash" (the process died on an out-of-bounds
\*          write)
\* shift  : the int operand of the last shift
\* str    : the std::string passed to or returned by the last conversion
\* arg    : the integer passed to the last integer constructor
\* vecs   : the socow_vector objects, by name
\* bufs   : the heap of shared_buffer objects, by address
\* call   : the last socow_vector member function called, the vector it was
\*          called on and its socow_vector argument
VARIABLES x, y, res, aux, op, status, shift, str, arg, vecs, bufs, call

vars == <<x, y, res, aux, op, status, shift, str, arg, vecs, bufs, call>>

\* the variables of the big_integer operations, and those of socow_vector
bi == <<x, y, res, aux, op, status, shift, str, arg>>

sv == <<vecs, bufs, call>>

\* the outcomes of an operation: a write past the end of a vector is
\* undefined behaviour that either goes unnoticed or kills the process
Outcomes(oob) == IF oob THEN {"ok", "crash"} ELSE {"ok"}

Fits(a) == Len(a.data) <= MaxLimbs

Init ==
  /\ x = default_ctor
  /\ y = default_ctor
  /\ res = default_ctor
  /\ aux = default_ctor
  /\ op = "init"
  /\ status = "ok"
  /\ shift = 0
  /\ str = <<>>
  /\ arg = 0
  /\ vecs = [n \in Names \cup Temps |-> IF n \in Names THEN EmptyVec ELSE DeadVec]
  /\ bufs = [id \in BufIds |-> FreeBuf]
  /\ call = [fn |-> "init", self |-> "-", other |-> "-"]

\* x = big_integer(val, negative); the constructors from unsigned long,
\* unsigned int and unsigned short pass their val on to this one
ConstructULL ==
  /\ status # "crash"
  /\ \E val \in 0..(DOUBLE_BASE - 1), negative \in BOOLEAN :
       /\ x' = ctor_ull(val, negative)
       /\ arg' = val
  /\ res' = default_ctor /\ aux' = default_ctor
  /\ op' = "ctor_ull" /\ status' = "ok"
  /\ shift' = 0 /\ str' = <<>>
  /\ UNCHANGED sv
  /\ UNCHANGED y

\* x = big_integer(val) for a long long val; the constructors from long, int
\* and short pass their val on to this one
ConstructLL ==
  /\ status # "crash"
  /\ \E val \in LLONG_MIN..LLONG_MAX :
       /\ x' = ctor_ll(val)
       /\ arg' = val
  /\ res' = default_ctor /\ aux' = default_ctor
  /\ op' = "ctor_ll" /\ status' = "ok"
  /\ shift' = 0 /\ str' = <<>>
  /\ UNCHANGED sv
  /\ UNCHANGED y

ResultOps == {"add", "sub", "mul", "neg", "divmod", "addboth", "negsum", "postinc"}

\* x = <the temporary> / y = <the temporary>: operator= (copy and swap)
Assign ==
  /\ status = "ok" /\ op \in ResultOps
  /\ \E src \in {res, aux}, toX \in BOOLEAN :
       /\ Fits(src)
       /\ x' = IF toX THEN src ELSE x
       /\ y' = IF toX THEN y ELSE src
  /\ res' = default_ctor /\ aux' = default_ctor
  /\ op' = "assign" /\ status' = "ok"
  /\ shift' = 0 /\ str' = <<>> /\ arg' = 0
  /\ UNCHANGED sv

\* x.swap(y)
Swap ==
  /\ status # "crash"
  /\ x' = swap(<<x, y>>)[1] /\ y' = swap(<<x, y>>)[2]
  /\ res' = default_ctor /\ aux' = default_ctor
  /\ op' = "swap" /\ status' = "ok"
  /\ shift' = 0 /\ str' = <<>> /\ arg' = 0
  /\ UNCHANGED sv

\* res = x + y
Add ==
  /\ status # "crash"
  /\ \E st \in Outcomes(plus_assign_oob(x, y)) :
       /\ status' = st
       /\ res' = IF st = "ok" THEN op_plus(x, y) ELSE default_ctor
  /\ aux' = default_ctor /\ op' = "add"
  /\ shift' = 0 /\ str' = <<>> /\ arg' = 0
  /\ UNCHANGED sv
  /\ UNCHANGED <<x, y>>

\* res = x - y
Sub ==
  /\ status # "crash"
  /\ \E st \in Outcomes(minus_assign_oob(x, y)) :
       /\ status' = st
       /\ res' = IF st = "ok" THEN op_minus(x, y) ELSE default_ctor
  /\ aux' = default_ctor /\ op' = "sub"
  /\ shift' = 0 /\ str' = <<>> /\ arg' = 0
  /\ UNCHANGED sv
  /\ UNCHANGED <<x, y>>

\* res = x * y
Mul ==
  /\ status # "crash"
  /\ res' = op_mul(x, y)
  /\ aux' = default_ctor /\ op' = "mul" /\ status' = "ok"
  /\ shift' = 0 /\ str' = <<>> /\ arg' = 0
  /\ UNCHANGED sv
  /\ UNCHANGED <<x, y>>

\* res = -x
Neg ==
  /\ status # "crash"
  /\ res' = unary_minus(x)
  /\ aux' = default_ctor /\ op' = "neg" /\ status' = "ok"
  /\ shift' = 0 /\ str' = <<>> /\ arg' = 0
  /\ UNCHANGED sv
  /\ UNCHANGED <<x, y>>

\* the status an evaluation of div_rem leaves
DivStatus(d) == IF d.thrown THEN {"DivisionByZero"} ELSE Outcomes(d.oob)

\* res = x / y; aux = x % y
DivMod ==
  /\ status # "crash"
  /\ \E st \in DivStatus(div_rem(x, y)) :
       /\ status' = st
       /\ res' = IF st = "ok" THEN op_div(x, y) ELSE default_ctor
       /\ aux' = IF st = "ok" THEN op_rem(x, y) ELSE default_ctor
  /\ op' = "divmod"
  /\ shift' = 0 /\ str' = <<>> /\ arg' = 0
  /\ UNCHANGED sv
  /\ UNCHANGED <<x, y>>

\* x /= y
DivAssign ==
  /\ status # "crash"
  /\ \E st \in DivStatus(div_rem(x, y)) :
       /\ status' = st
       /\ x' = IF st = "crash" THEN x ELSE div_assign(x, y)
  /\ res' = default_ctor /\ aux' = default_ctor /\ op' = "div_assign"
  /\ shift' = 0 /\ str' = <<>> /\ arg' = 0
  /\ UNCHANGED sv
  /\ UNCHANGED y

\* x %= y
RemAssign ==
  /\ status # "crash"
  /\ \E st \in DivStatus(div_rem(x, y)) :
       /\ status' = st
       /\ x' = IF st = "crash" THEN x ELSE rem_assign(x, y)
  /\ res' = default_ctor /\ aux' = default_ctor /\ op' = "rem_assign"
  /\ shift' = 0 /\ str' = <<>> /\ arg' = 0
  /\ UNCHANGED sv
  /\ UNCHANGED y

\* res = x + y; aux = y + x
AddBoth ==
  /\ status # "crash"
  /\ \E st \in Outcomes(plus_assign_oob(x, y) \/ plus_assign_oob(y, x)) :
       /\ status' = st
       /\ res' = IF st = "ok" THEN op_plus(x, y) ELSE default_ctor
       /\ aux' = IF st = "ok" THEN op_plus(y, x) ELSE default_ctor
  /\ op' = "addboth"
  /\ shift' = 0 /\ str' = <<>> /\ arg' = 0
  /\ UNCHANGED sv
  /\ UNCHANGED <<x, y>>

\* res = x + (-x); aux = -(-x)
NegSum ==
  /\ status # "crash"
  /\ \E st \in Outcomes(plus_assign_oob(x, unary_minus(x))) :
       /\ status' = st
       /\ res' = IF st = "ok" THEN op_plus(x, unary_minus(x)) ELSE default_ctor
       /\ aux' = IF st = "ok" THEN unary_minus(unary_minus(x)) ELSE default_ctor
  /\ op' = "negsum"
  /\ shift' = 0 /\ str' = <<>> /\ arg' = 0
  /\ UNCHANGED sv
  /\ UNCHANGED <<x, y>>

\* res = x++
PostInc ==
  /\ status # "crash"
  /\ Fits(post_increment(x))
  /\ res' = x
  /\ x' = post_increment(x)
  /\ aux' = default_ctor /\ op' = "postinc" /\ status' = "ok"
  /\ shift' = 0 /\ str' = <<>> /\ arg' = 0
  /\ UNCHANGED sv
  /\ UNCHANGED y

Next ==
  \/ ConstructULL
  \/ ConstructLL
  \/ Assign
  \/ Swap
  \/ Add
  \/ Sub
  \/ Mul
  \/ DivMod
  \/ DivAssign
  \/ RemAssign
  \/ Neg
  \/ AddBoth
  \/ NegSum
  \/ PostInc

Spec == Init /\ [][Next]_vars

\* ------------------------------------------------------- the shift operators
\* res = x << shift
ShiftLeft ==
  /\ status # "crash"
  /\ \E n \in 0..MaxShift :
       /\ res' = op_shl(x, n)
       /\ shift' = n
  /\ aux' = default_ctor
  /\ op' = "shl" /\ status' = "ok"
  /\ str' = <<>> /\ arg' = 0
  /\ UNCHANGED sv
  /\ UNCHANGED <<x, y>>

\* res = x >> shift
ShiftRight ==
  /\ status # "crash"
  /\ \E n \in 0..MaxShift :
       /\ res' = op_shr(x, n)
       /\ shift' = n
  /\ aux' = default_ctor
  /\ op' = "shr" /\ status' = "ok"
  /\ str' = <<>> /\ arg' = 0
  /\ UNCHANGED sv
  /\ UNCHANGED <<x, y>>

\* x <<= n
ShlAssign ==
  /\ status # "crash"
  /\ \E n \in 0..MaxShift :
       /\ Fits(shl_assign(x, n))
       /\ x' = shl_assign(x, n)
  /\ res' = default_ctor /\ aux' = default_ctor
  /\ op' = "shl_assign" /\ status' = "ok"
  /\ shift' = 0 /\ str' = <<>> /\ arg' = 0
  /\ UNCHANGED sv
  /\ UNCHANGED y

\* x >>= n
ShrAssign ==
  /\ status # "crash"
  /\ \E n \in 0..MaxShift :
       /\ Fits(shr_assign(x, n))
       /\ x' = shr_assign(x, n)
  /\ res' = default_ctor /\ aux' = default_ctor
  /\ op' = "shr_assign" /\ status' = "ok"
  /\ shift' = 0 /\ str' = <<>> /\ arg' = 0
  /\ UNCHANGED sv
  /\ UNCHANGED y

NextShift ==
  \/ ConstructULL
  \/ ConstructLL
  \/ ShiftLeft
  \/ ShiftRight
  \/ ShlAssign
  \/ ShrAssign

SpecShift == Init /\ [][NextShift]_vars

\* ----------------------------------------------------- the bitwise operators
\* res = x & y
BitAnd ==
  /\ status # "crash"
  /\ res' = op_and(x, y)
  /\ aux' = default_ctor /\ op' = "and" /\ status' = "ok"
  /\ shift' = 0 /\ str' = <<>> /\ arg' = 0
  /\ UNCHANGED sv
  /\ UNCHANGED <<x, y>>

\* res = x | y
BitOr ==
  /\ status # "crash"
  /\ res' = op_or(x, y)
  /\ aux' = default_ctor /\ op' = "or" /\ status' = "ok"
  /\ shift' = 0 /\ str' = <<>> /\ arg' = 0
  /\ UNCHANGED sv
  /\ UNCHANGED <<x, y>>

\* res = x ^ y
BitXor ==
  /\ status # "crash"
  /\ res' = op_xor(x, y)
  /\ aux' = default_ctor /\ op' = "xor" /\ status' = "ok"
  /\ shift' = 0 /\ str' = <<>> /\ arg' = 0
  /\ UNCHANGED sv
  /\ UNCHANGED <<x, y>>

\* res = ~x; aux = -(x + 1)
Not ==
  /\ status # "crash"
  /\ \E st \in Outcomes(plus_assign_oob(x, ctor_ll(1))) :
       /\ status' = st
       /\ res' = IF st = "ok" THEN op_not(x) ELSE default_ctor
       /\ aux' = IF st = "ok" THEN unary_minus(op_plus(x, ctor_ll(1))) ELSE default_ctor
  /\ op' = "not"
  /\ shift' = 0 /\ str' = <<>> /\ arg' = 0
  /\ UNCHANGED sv
  /\ UNCHANGED <<x, y>>

NextBitwise ==
  \/ ConstructULL
  \/ ConstructLL
  \/ Swap
  \/ ShlAssign
  \/ BitAnd
  \/ BitOr
  \/ BitXor
  \/ Not

SpecBitwise == Init /\ [][NextBitwise]_vars

\* ------------------------------------------------------ the string conversions
\* the characters strings are made of: the digits, '-' and '+'
Chars == {Digits[d + 1] : d \in 0..(RADIX - 1)} \cup {"-", "+"}

Strings == UNION {[1..k -> Chars] : k \in 0..MaxStrLen}

\* big_integer x(str): when the constructor throws there is no instance, and
\* x stands for a default-constructed one
Parse ==
  /\ status # "crash"
  /\ \E s \in Strings :
       LET c == ctor_string(s)
       IN /\ Fits(c.value)
          /\ str' = s
          /\ status' = IF c.thrown THEN "ParseError" ELSE "ok"
          /\ x' = c.value
  /\ res' = default_ctor /\ aux' = default_ctor /\ op' = "from_string"
  /\ shift' = 0 /\ arg' = 0
  /\ UNCHANGED sv
  /\ UNCHANGED y

\* str = to_string(x)
Format ==
  /\ status # "crash"
  /\ str' = to_string(x)
  /\ res' = default_ctor /\ aux' = default_ctor
  /\ op' = "to_string" /\ status' = "ok"
  /\ shift' = 0 /\ arg' = 0
  /\ UNCHANGED sv
  /\ UNCHANGED <<x, y>>

NextString ==
  \/ ConstructULL
  \/ ConstructLL
  \/ Parse
  \/ Format

SpecString == Init /\ [][NextString]_vars

\* ------------------------------------------------- the operations in place
\* x += y
AddAssign ==
  /\ status # "crash"
  /\ Fits(plus_assign(x, y))
  /\ \E st \in Outcomes(plus_assign_oob(x, y)) :
       /\ status' = st
       /\ x' = IF st = "crash" THEN x ELSE plus_assign(x, y)
  /\ res' = default_ctor /\ aux' = default_ctor /\ op' = "add_assign"
  /\ shift' = 0 /\ str' = <<>> /\ arg' = 0
  /\ UNCHANGED sv
  /\ UNCHANGED y

\* x -= y
SubAssign ==
  /\ status # "crash"
  /\ Fits(minus_assign(x, y))
  /\ \E st \in Outcomes(minus_assign_oob(x, y)) :
       /\ status' = st
       /\ x' = IF st = "crash" THEN x ELSE minus_assign(x, y)
  /\ res' = default_ctor /\ aux' = default_ctor /\ op' = "sub_assign"
  /\ shift' = 0 /\ str' = <<>> /\ arg' = 0
  /\ UNCHANGED sv
  /\ UNCHANGED y

\* x *= y
MulAssign ==
  /\ status # "crash"
  /\ Fits(mul_assign(x, y))
  /\ x' = mul_assign(x, y)
  /\ res' = default_ctor /\ aux' = default_ctor
  /\ op' = "mul_assign" /\ status' = "ok"
  /\ shift' = 0 /\ str' = <<>> /\ arg' = 0
  /\ UNCHANGED sv
  /\ UNCHANGED y

\* x &= y
AndAssign ==
  /\ status # "crash"
  /\ x' = and_assign(x, y)
  /\ res' = default_ctor /\ aux' = default_ctor
  /\ op' = "and_assign" /\ status' = "ok"
  /\ shift' = 0 /\ str' = <<>> /\ arg' = 0
  /\ UNCHANGED sv
  /\ UNCHANGED y

\* x |= y
OrAssign ==
  /\ status # "crash"
  /\ x' = or_assign(x, y)
  /\ res' = default_ctor /\ aux' = default_ctor
  /\ op' = "or_assign" /\ status' = "ok"
  /\ shift' = 0 /\ str' = <<>> /\ arg' = 0
  /\ UNCHANGED sv
  /\ UNCHANGED y

\* x ^= y
XorAssign ==
  /\ status # "crash"
  /\ x' = xor_assign(x, y)
  /\ res' = default_ctor /\ aux' = default_ctor
  /\ op' = "xor_assign" /\ status' = "ok"
  /\ shift' = 0 /\ str' = <<>> /\ arg' = 0
  /\ UNCHANGED sv
  /\ UNCHANGED y

\* ++x
PreInc ==
  /\ status # "crash"
  /\ Fits(pre_increment(x))
  /\ x' = pre_increment(x)
  /\ res' = default_ctor /\ aux' = default_ctor
  /\ op' = "preinc" /\ status' = "ok"
  /\ shift' = 0 /\ str' = <<>> /\ arg' = 0
  /\ UNCHANGED sv
  /\ UNCHANGED y

\* --x
PreDec ==
  /\ status # "crash"
  /\ Fits(pre_decrement(x))
  /\ x' = pre_decrement(x)
  /\ res' = default_ctor /\ aux' = default_ctor
  /\ op' = "predec" /\ status' = "ok"
  /\ shift' = 0 /\ str' = <<>> /\ arg' = 0
  /\ UNCHANGED sv
  /\ UNCHANGED y

\* x.negate()
Negate ==
  /\ status # "crash"
  /\ x' = negate(x)
  /\ res' = default_ctor /\ aux' = default_ctor
  /\ op' = "negate" /\ status' = "ok"
  /\ shift' = 0 /\ str' = <<>> /\ arg' = 0
  /\ UNCHANGED sv
  /\ UNCHANGED y

\* x = ~x
NotAssign ==
  /\ status # "crash"
  /\ Fits(op_not(x))
  /\ x' = op_not(x)
  /\ res' = default_ctor /\ aux' = default_ctor
  /\ op' = "not_assign" /\ status' = "ok"
  /\ shift' = 0 /\ str' = <<>> /\ arg' = 0
  /\ UNCHANGED sv
  /\ UNCHANGED y

\* x = y
CopyAssign ==
  /\ status # "crash"
  /\ x' = y
  /\ res' = default_ctor /\ aux' = default_ctor
  /\ op' = "copy_assign" /\ status' = "ok"
  /\ shift' = 0 /\ str' = <<>> /\ arg' = 0
  /\ UNCHANGED sv
  /\ UNCHANGED y

NextAll ==
  \/ ConstructULL
  \/ ConstructLL
  \/ CopyAssign
  \/ Swap
  \/ AddAssign
  \/ SubAssign
  \/ MulAssign
  \/ DivAssign
  \/ RemAssign
  \/ AndAssign
  \/ OrAssign
  \/ XorAssign
  \/ ShlAssign
  \/ ShrAssign
  \/ PreInc
  \/ PreDec
  \/ Negate
  \/ NotAssign

SpecAll == Init /\ [][NextAll]_vars

\* ------------------------------------------------- increments and decrements
\* res = x--
PostDec ==
  /\ status # "crash"
  /\ Fits(post_decrement(x))
  /\ res' = x
  /\ x' = post_decrement(x)
  /\ aux' = default_ctor /\ op' = "postdec" /\ status' = "ok"
  /\ shift' = 0 /\ str' = <<>> /\ arg' = 0
  /\ UNCHANGED sv
  /\ UNCHANGED y

NextIncDec ==
  \/ ConstructULL
  \/ ConstructLL
  \/ PreInc
  \/ PostInc
  \/ PreDec
  \/ PostDec

SpecIncDec == Init /\ [][NextIncDec]_vars

\* -------------------------------------------------------- division, wider
\* the dividend may have one limb more than the divisor
MaxDivLimbs == MaxLimbs + 1

\* the canonical limb vectors (_data) of at most n limbs
RECURSIVE LimbSeqs(_)
LimbSeqs(n) ==
  IF n = 0 THEN {<<>>}
  ELSE LimbSeqs(n - 1) \cup {d \in [1..n -> 0..DIGIT_MAX_VALUE] : d[n] # 0}

\* x and y are any canonical values, as sums, products and parsed strings
\* leave them
InitDiv ==
  /\ x \in {BigInt(d, s) : d \in LimbSeqs(MaxDivLimbs), s \in BOOLEAN}
  /\ y \in {BigInt(d, s) : d \in LimbSeqs(MaxLimbs), s \in BOOLEAN}
  /\ res = default_ctor
  /\ aux = default_ctor
  /\ op = "init"
  /\ status = "ok"
  /\ shift = 0
  /\ str = <<>>
  /\ arg = 0
  /\ vecs = [n \in Names \cup Temps |-> IF n \in Names THEN EmptyVec ELSE DeadVec]
  /\ bufs = [id \in BufIds |-> FreeBuf]
  /\ call = [fn |-> "init", self |-> "-", other |-> "-"]

NextDiv == DivMod \/ DivAssign

SpecDiv == InitDiv /\ [][NextDiv]_vars

\* ------------------------------------------- compound assignment, a op= a
\* operator+= with rhs bound to *this: the signs agree, so it is
\* abs_add(rhs, *this) with all three the same object; limb i is read
\* before it is written
plus_assign_self(this) == abs_add(this, this, TRUE)

\* operator-= with rhs bound to *this: negate() has flipped rhs as well
\* by the time += reads it
minus_assign_self(this) == negate(plus_assign_self(negate(this)))

\* abs_mul with rhs bound to *this, inner loop: rhs._data[j] is limb j of
\* the vector being written
RECURSIVE abs_mul_self_inner(_, _, _, _, _, _)
abs_mul_self_inner(d, rhs_size, i, j, data_i, carry) ==
  IF j >= rhs_size THEN [d |-> d, carry |-> carry]
  ELSE abs_mul_self_inner(
         [d EXCEPT ![i + j + 1] = ((data_i * d[j + 1] + d[i + j + 1] + carry) % DOUBLE_BASE)
                                     % DIGIT_BASE],
         rhs_size, i, j + 1, data_i,
         ((data_i * d[j + 1] + d[i + j + 1] + carry) % DOUBLE_BASE) \div DIGIT_BASE)

\* abs_mul with rhs bound to *this, outer loop; row is the state the inner
\* loop ends in
RECURSIVE abs_mul_self_outer(_, _, _)
abs_mul_self_row(d, rhs_size, i, row) ==
  abs_mul_self_outer([row.d EXCEPT ![i + rhs_size + 1] = row.carry], rhs_size, i + 1)

abs_mul_self_outer(d, rhs_size, i) ==
  IF i >= rhs_size THEN d
  ELSE abs_mul_self_row(d, rhs_size, i,
                        abs_mul_self_inner(d, rhs_size, i, 0, d[i + rhs_size + 1], 0))

\* operator*= with rhs bound to *this: this_size and rhs_size are both the
\* size before the insert, which shifts the limbs rhs refers to as well
mul_assign_self(this) ==
  trim([data     |-> abs_mul_self_outer(zeros(Len(this.data)) \o this.data,
                                        Len(this.data), 0),
        negative |-> (this.negative # is_negative(this))])

\* bitwise_operation with rhs bound to *this: b_digit is read from the limb
\* a_digit is read from, before _data[i] is written
RECURSIVE bitwise_operation_self_loop(_, _, _, _, _, _, _)
bitwise_operation_self_store(this, f, result_negative, i, a, b, r) ==
  bitwise_operation_self_loop([this EXCEPT !.data[i + 1] = r.digit], f, result_negative,
                              i + 1, a.carry, b.carry, r.carry)

bitwise_operation_self_digit(this, f, result_negative, i, a, b, res_carry) ==
  bitwise_operation_self_store(this, f, result_negative, i, a, b,
     twos_complement(result_negative, bit_op(f, a.digit, b.digit, DIGIT_BITS), res_carry))

bitwise_operation_self_loop(this, f, result_negative, i, a_carry, b_carry, res_carry) ==
  IF i >= Len(this.data) THEN this
  ELSE bitwise_operation_self_digit(this, f, result_negative, i,
          twos_complement(is_negative(this), this.data[i + 1], a_carry),
          twos_complement(is_negative(this), this.data[i + 1], b_carry),
          res_carry)

bitwise_operation_self(this, f) ==
  trim([bitwise_operation_self_loop(this, f,
                                    bit_op_bool(f, is_negative(this), is_negative(this)),
                                    0, 1, 1, 1)
        EXCEPT !.negative = bit_op_bool(f, is_negative(this), is_negative(this))])

\* x += x; res = the same with a copy of x on the right
AddAssignSelf ==
  /\ status # "crash"
  /\ Fits(plus_assign_self(x))
  /\ x' = plus_assign_self(x)
  /\ res' = plus_assign(x, x)
  /\ aux' = default_ctor /\ op' = "add_self" /\ status' = "ok"
  /\ shift' = 0 /\ str' = <<>> /\ arg' = 0
  /\ UNCHANGED sv
  /\ UNCHANGED y

\* x -= x
SubAssignSelf ==
  /\ status # "crash"
  /\ Fits(minus_assign_self(x))
  /\ x' = minus_assign_self(x)
  /\ \E st \in Outcomes(minus_assign_oob(x, x)) :
       /\ status' = st
       /\ res' = IF st = "ok" THEN minus_assign(x, x) ELSE default_ctor
  /\ aux' = default_ctor /\ op' = "sub_self"
  /\ shift' = 0 /\ str' = <<>> /\ arg' = 0
  /\ UNCHANGED sv
  /\ UNCHANGED y

\* x *= x
MulAssignSelf ==
  /\ status # "crash"
  /\ x' = mul_assign_self(x)
  /\ res' = mul_assign(x, x)
  /\ aux' = default_ctor /\ op' = "mul_self" /\ status' = "ok"
  /\ shift' = 0 /\ str' = <<>> /\ arg' = 0
  /\ UNCHANGED sv
  /\ UNCHANGED y

\* x /= x: div_rem takes rhs by value, the copy is made before *this changes
DivAssignSelf ==
  /\ status # "crash"
  /\ \E st \in DivStatus(div_rem(x, x)) :
       /\ status' = st
       /\ x' = IF st = "crash" THEN x ELSE div_assign(x, x)
       /\ res' = IF st = "crash" THEN default_ctor ELSE div_assign(x, x)
  /\ aux' = default_ctor /\ op' = "div_self"
  /\ shift' = 0 /\ str' = <<>> /\ arg' = 0
  /\ UNCHANGED sv
  /\ UNCHANGED y

\* x %= x
RemAssignSelf ==
  /\ status # "crash"
  /\ \E st \in DivStatus(div_rem(x, x)) :
       /\ status' = st
       /\ x' = IF st = "crash" THEN x ELSE rem_assign(x, x)
       /\ res' = IF st = "crash" THEN default_ctor ELSE rem_assign(x, x)
  /\ aux' = default_ctor /\ op' = "rem_self"
  /\ shift' = 0 /\ str' = <<>> /\ arg' = 0
  /\ UNCHANGED sv
  /\ UNCHANGED y

\* x &= x
AndAssignSelf ==
  /\ status # "crash"
  /\ x' = bitwise_operation_self(x, "and")
  /\ res' = and_assign(x, x)
  /\ aux' = default_ctor /\ op' = "and_self" /\ status' = "ok"
  /\ shift' = 0 /\ str' = <<>> /\ arg' = 0
  /\ UNCHANGED sv
  /\ UNCHANGED y

\* x |= x
OrAssignSelf ==
  /\ status # "crash"
  /\ x' = bitwise_operation_self(x, "or")
  /\ res' = or_assign(x, x)
  /\ aux' = default_ctor /\ op' = "or_self" /\ status' = "ok"
  /\ shift' = 0 /\ str' = <<>> /\ arg' = 0
  /\ UNCHANGED sv
  /\ UNCHANGED y

\* x ^= x
XorAssignSelf ==
  /\ status # "crash"
  /\ x' = bitwise_operation_self(x, "xor")
  /\ res' = xor_assign(x, x)
  /\ aux' = default_ctor /\ op' = "xor_self" /\ status' = "ok"
  /\ shift' = 0 /\ str' = <<>> /\ arg' = 0
  /\ UNCHANGED sv
  /\ UNCHANGED y

NextSelf ==
  \/ ConstructULL \/ ConstructLL
  \/ AddAssignSelf \/ SubAssignSelf \/ MulAssignSelf \/ DivAssignSelf \/ RemAssignSelf
  \/ AndAssignSelf \/ OrAssignSelf \/ XorAssignSelf

SpecSelf == Init /\ [][NextSelf]_vars

\* ------------------------------------------------- socow_vector, the calls
\* the heap and the vectors as one value, as the member functions see them
World == [v |-> vecs, b |-> bufs]

\* the state a member function fn called on t (with the argument other)
\* leaves; the big_integer variables are not touched
Returns(w, fn, t, other) ==
  /\ vecs' = w.v
  /\ bufs' = w.b
  /\ call' = [fn |-> fn, self |-> t, other |-> other]
  /\ UNCHANGED bi

Live(t) == vecs[t].live

\* socow_vector t;
VecCtor ==
  \E t \in Names :
    /\ ~Live(t)
    /\ Returns([World EXCEPT !.v[t] = EmptyVec], "ctor", t, "-")

\* socow_vector t = other;
VecCopyCtor ==
  \E t \in Names, other \in Names :
    /\ ~Live(t) /\ Live(other)
    /\ Returns(socow_copy_ctor(World, t, other), "copy_ctor", t, other)

\* t goes out of scope
VecDtor ==
  \E t \in Names :
    /\ Live(t)
    /\ Returns(socow_dtor(World, t), "dtor", t, "-")

\* t = other;
VecAssign ==
  \E t \in Names, other \in Names :
    /\ Live(t) /\ Live(other)
    /\ Returns(socow_assign(World, t, other), "assign", t, other)

\* t.insert(std::as_const(t).begin() + index, value); t.push_back(value)
\* is the call with index = size()
VecInsert ==
  \E t \in Names, value \in T :
    /\ Live(t) /\ vecs[t].size < MaxVecSize
    /\ \E index \in 0..vecs[t].size :
         Returns(insert(World, t, index, value), "insert", t, "-")

\* t.erase(first, last) with const iterators; t.pop_back() is the call
\* with index = size() - 1 and last_index = size()
VecErase ==
  \E t \in Names :
    /\ Live(t)
    /\ \E index \in 0..vecs[t].size :
         \E last_index \in index..vecs[t].size :
           Returns(erase(World, t, index, last_index), "erase", t, "-")

\* t.clear()
VecClear ==
  \E t \in Names :
    /\ Live(t)
    /\ Returns(clear(World, t), "clear", t, "-")

\* t.swap(other)
VecSwap ==
  \E t \in Names, other \in Names :
    /\ Live(t) /\ Live(other)
    /\ Returns(socow_swap(World, t, other), "swap", t, other)

\* t.reserve(new_capacity)
VecReserve ==
  \E t \in Names, new_capacity \in 0..(MaxVecSize + 1) :
    /\ Live(t)
    /\ Returns(set_capacity(World, t, new_capacity), "reserve", t, "-")

\* t.shrink_to_fit()
VecShrinkToFit ==
  \E t \in Names :
    /\ Live(t)
    /\ Returns(shrink_to_fit(World, t), "shrink_to_fit", t, "-")

\* t[index] = value; front(), back(), data(), begin() and end() reach the
\* element through the same unshare()
VecSubscript ==
  \E t \in Names, value \in T :
    /\ Live(t)
    /\ \E index \in 0..(vecs[t].size - 1) :
         Returns(subscript_store(World, t, index, value), "subscript", t, "-")

NextVec ==
  \/ VecCtor \/ VecCopyCtor \/ VecDtor \/ VecAssign
  \/ VecInsert \/ VecErase \/ VecClear \/ VecSwap
  \/ VecReserve \/ VecShrinkToFit \/ VecSubscript

SpecVec == Init /\ [][NextVec]_vars

\* ================================================================== the claims
\* the mathematical integer a big_integer stands for
RECURSIVE Magnitude(_)
Magnitude(d) == IF d = <<>> THEN 0 ELSE d[1] + DIGIT_BASE * Magnitude(Tail(d))

Val(a) == IF a.negative THEN -Magnitude(a.data) ELSE Magnitude(a.data)

Abs(n) == IF n < 0 THEN -n ELSE n

Canonical(a) == a.data = <<>> \/ a.data[Len(a.data)] # 0

TypeOK ==
  /\ \A a \in {x, y, res, aux} :
       /\ a.negative \in BOOLEAN
       /\ \A i \in 1..Len(a.data) : a.data[i] \in 0..DIGIT_MAX_VALUE
  /\ Canonical(x) /\ Canonical(y) /\ Fits(x) /\ Fits(y)
  /\ status \in {"ok", "DivisionByZero", "crash"}

\* C1: for every a and non-zero b, q = a / b and r = a % b satisfy
\* q * b + r = a as mathematical integers.
C1_DivModIdentity ==
  (op = "divmod" /\ status = "ok") => Val(res) * Val(y) + Val(aux) = Val(x)

\* C2: for every a and non-zero b, |a % b| < |b|, also when the digit loop
\* of div_rem stops early on a working dividend of fewer than two limbs.
C2_RemainderSmaller ==
  (op = "divmod" /\ status = "ok") => Abs(Val(aux)) < Abs(Val(y))

\* C3: the quotient a / b is zero or has the sign sign(a) XOR sign(b), the
\* remainder a % b is zero or has the sign of a, a zero result is never
\* observed as negative, and -7 / 2 = -3 with -7 % 2 = -1.
C3_DivSigns ==
  (op = "divmod" /\ status = "ok") =>
     /\ is_zero(res) \/ (is_negative(res) = (is_negative(x) # is_negative(y)))
     /\ is_zero(aux) \/ (is_negative(aux) = is_negative(x))
     /\ is_zero(res) => ~is_negative(res)
     /\ is_zero(aux) => ~is_negative(aux)
     /\ (x = ctor_ll(-7) /\ y = ctor_ll(2)) => (res = ctor_ll(-3) /\ aux = ctor_ll(-1))

\* a two-limb negative dividend was divided by a negative divisor, with a
\* non-zero quotient and a non-zero remainder
C3_Witness ==
  /\ op = "divmod" /\ status = "ok"
  /\ is_negative(x) /\ is_negative(y)
  /\ ~is_zero(res) /\ ~is_zero(aux)
  /\ Len(x.data) = 2

DivOps == {"divmod", "div_assign", "rem_assign"}

\* C4: a / b, a % b, a /= b and a %= b with b zero (whatever its raw sign
\* flag) report a division-by-zero error and leave both operands unchanged.
C4_DivByZero ==
  [][(op' \in DivOps /\ is_zero(y)) =>
       (status' = "DivisionByZero" /\ x' = x /\ y' = y)]_vars

\* x /= y was refused for a zero y whose raw sign flag is set and a negative x
C4_Witness ==
  /\ op = "div_assign" /\ status = "DivisionByZero"
  /\ is_zero(y) /\ y.negative
  /\ is_negative(x)

\* C5: a + b is the mathematical integer sum, also when the signs differ and
\* the left operand has fewer limbs than the right one.
C5_AddIsSum == (op = "add" /\ status = "ok") => Val(res) = Val(x) + Val(y)

\* C6: a + b == b + a for all a and b.
C6_AddCommutes == (op = "addboth" /\ status = "ok") => op_eq(res, aux)

\* C7: a - b (distinct instances) is the mathematical integer difference,
\* and for equal values the result is canonical zero: empty magnitude,
\* is_zero() true, is_negative() false.
C7_SubIsDifference ==
  (op = "sub" /\ status = "ok") =>
     /\ Val(res) = Val(x) - Val(y)
     /\ Val(x) = Val(y) => (res.data = <<>> /\ is_zero(res) /\ ~is_negative(res))

\* C8: a + (-a) == 0 and -(-a) == a for every a; -0 is zero and
\* is_negative(-0) is false.
C8_NegateInverse ==
  /\ (op = "negsum" /\ status = "ok") =>
        (op_eq(res, ctor_ll(0)) /\ op_eq(aux, x))
  /\ (op = "neg" /\ status = "ok" /\ is_zero(x)) =>
        (is_zero(res) /\ ~is_negative(res) /\ op_eq(res, ctor_ll(0)))

\* a + (-a) and -(-a) were evaluated for a positive two-limb a
C8_Witness ==
  /\ op = "negsum" /\ status = "ok"
  /\ Len(x.data) = 2 /\ ~x.negative
  /\ is_zero(res) /\ aux = x

\* C9: a * b (distinct instances) is the mathematical integer product, with
\* the XOR of the operand signs; a * 1 == a; a * 0 == 0, not observed as
\* negative.
C9_MulIsProduct ==
  (op = "mul" /\ status = "ok") =>
     /\ Val(res) = Val(x) * Val(y)
     /\ Canonical(res)
     /\ ~is_zero(res) => (is_negative(res) = (is_negative(x) # is_negative(y)))
     /\ op_eq(y, ctor_ll(1)) => op_eq(res, x)
     /\ is_zero(y) => (op_eq(res, ctor_ll(0)) /\ ~is_negative(res))

\* a two-limb positive value was multiplied by a two-limb negative one into
\* a four-limb product
C9_Witness ==
  /\ op = "mul" /\ status = "ok"
  /\ Len(x.data) = 2 /\ Len(y.data) = 2 /\ Len(res.data) = 4
  /\ ~is_negative(x) /\ is_negative(y)

\* C10: for every a and every zero-valued z produced by public operations,
\* whatever its raw sign flag: a + z == a, z + a == a, and ++z == 1.
C10_ZeroNeutral ==
  /\ (op = "add" /\ status = "ok" /\ is_zero(y)) => op_eq(res, x)
  /\ (op = "add" /\ status = "ok" /\ is_zero(x)) => op_eq(res, y)
  /\ (op = "postinc" /\ status = "ok" /\ is_zero(res)) => op_eq(x, ctor_ll(1))

\* C11: a >> n is floor(a / 2^n) for every a and every n >= 0; -1 >> 1 is
\* -1, -8 >> 2 is -2, and a negative value shifted by at least its bit
\* length is -1.
C11_ShrIsFloor ==
  op = "shr" =>
     /\ Val(res) = Val(x) \div Pow2(shift)
     /\ (x = ctor_ll(-1) /\ shift = 1) => op_eq(res, ctor_ll(-1))
     /\ (x = ctor_ll(-8) /\ shift = 2) => op_eq(res, ctor_ll(-2))
     /\ (is_negative(x) /\ Pow2(shift) > Magnitude(x.data)) => op_eq(res, ctor_ll(-1))

\* C12: a << n is a * 2^n for every a and every n >= 0, below, equal to and
\* above the limb width, with the sign of a and in canonical form.
C12_ShlIsProduct ==
  op = "shl" =>
     /\ Val(res) = Val(x) * Pow2(shift)
     /\ is_negative(res) = is_negative(x)
     /\ Canonical(res)

\* a negative two-limb value was shifted left by more than the limb width,
\* with a bit count that is not a multiple of it
C12_Witness ==
  /\ op = "shl"
  /\ is_negative(x) /\ Len(x.data) = 2
  /\ shift > DIGIT_BITS /\ shift % DIGIT_BITS # 0
  /\ Len(res.data) = 4

\* the integer whose infinite two's-complement bit pattern is the bitwise
\* f of the patterns of the integers a and b
RECURSIVE IntBitOp(_, _, _)
IntBitOp(f, a, b) ==
  IF a \in {0, -1} /\ b \in {0, -1}
    THEN (IF bit_op_bool(f, a = -1, b = -1) THEN -1 ELSE 0)
    ELSE (IF bit_op_bool(f, a % 2 = 1, b % 2 = 1) THEN 1 ELSE 0)
           + 2 * IntBitOp(f, a \div 2, b \div 2)

\* C13: a & b, a | b and a ^ b are the integers whose infinite-width
\* two's-complement patterns are the AND, OR, XOR of the patterns of a and
\* b, with the sign the operation gives on the sign bits, also when the
\* negative result needs one more limb than the longer operand.
C13_BitwiseTwosComplement ==
  op \in {"and", "or", "xor"} =>
     /\ Val(res) = IntBitOp(op, Val(x), Val(y))
     /\ is_negative(res) = bit_op_bool(op, is_negative(x), is_negative(y))

\* C14: ~a == -(a + 1) for every a, zero with either raw sign flag and -1
\* included; ~0 == -1 and ~(-1) == 0.
C14_NotIsNegSucc ==
  (op = "not" /\ status = "ok") =>
     /\ op_eq(res, aux)
     /\ is_zero(x) => op_eq(res, ctor_ll(-1))
     /\ x = ctor_ll(-1) => op_eq(res, ctor_ll(0))

\* the digits of the natural number v in radix RADIX, highest first, and the
\* string form of the integer v
RECURSIVE RefDigits(_)
RefDigits(v) ==
  IF v < RADIX THEN <<Digits[v + 1]>>
  ELSE Append(RefDigits(v \div RADIX), Digits[(v % RADIX) + 1])

RefString(v) == IF v < 0 THEN <<"-">> \o RefDigits(-v) ELSE RefDigits(v)

\* C15: constructing a big_integer from to_string(a) gives a value equal to
\* a; to_string(a) has no leading zero except for the string "0", pads
\* every non-leading chunk of DIGITS_10 digits with zeros, is never "-0",
\* and the string "-0" parses to a value printed as "0".
C15_DecimalRoundTrip ==
  /\ op = "to_string" =>
        /\ ~ctor_string(str).thrown
        /\ op_eq(ctor_string(str).value, x)
        /\ str = RefString(Val(x))
        /\ str = <<"0">> \/ str[1] # "0"
        /\ str # <<"-", "0">>
  /\ (op = "from_string" /\ str = <<"-", "0">>) =>
        (status = "ok" /\ to_string(x) = <<"0">>)

\* a negative two-limb value was printed with a zero chunk below its
\* leading chunk
C15_Witness ==
  /\ op = "to_string"
  /\ is_negative(x) /\ Len(x.data) = 2
  /\ Len(str) >= 4 /\ str[3] = "0"

\* a string with no character at all after the optional leading '-', or
\* with a character that is not a digit after it
Malformed(s) ==
  \/ s = <<>>
  \/ s = <<"-">>
  \/ \E i \in 1..Len(s) : digit_of(s[i]) < 0 /\ ~(i = 1 /\ s[1] = "-")

\* C16: the string constructor fails with a parse error exactly when the
\* string is empty, is a lone '-', or has a non-digit character after the
\* optional leading '-' (a second '-' or a '+' included); every string of
\* one or more digits with an optional leading '-' is accepted.
C16_ParseErrorExactly ==
  op = "from_string" => ((status = "ParseError") <=> Malformed(str))

\* a string with a leading '-', a digit and then a '+' was refused
C16_Witness ==
  /\ op = "from_string" /\ status = "ParseError"
  /\ Len(str) >= 3
  /\ str[1] = "-" /\ digit_of(str[2]) >= 0 /\ str[3] = "+"

\* C17: after any sequence of public operations every big_integer's
\* magnitude is empty or has a non-zero highest limb.
C17_CanonicalForm == Canonical(x) /\ Canonical(y)

\* x *= y stored a canonical two-limb product for a one-limb y
C17_Witness ==
  /\ op = "mul_assign" /\ status = "ok"
  /\ Len(x.data) = 2 /\ Len(y.data) = 1
  /\ x.data[2] # 0

\* C18: the observers hide a sign flag left set on an empty magnitude: for
\* every z with empty magnitude in a reachable state, is_negative(z) is
\* false, z == 0 whatever the raw flag, z is neither less nor greater than a
\* clean zero, and to_string(z) is "0".
C18_ObserversHideFlag ==
  \A z \in {x, y} :
     is_zero(z) =>
        /\ ~is_negative(z)
        /\ op_eq(z, ctor_ll(0)) /\ op_eq(z, negate(z))
        /\ ~op_lt(z, ctor_ll(0)) /\ ~op_gt(z, ctor_ll(0))
        /\ ~op_lt(ctor_ll(0), z) /\ ~op_gt(ctor_ll(0), z)
        /\ to_string(z) = <<"0">>

\* x += y left the sign flag set on an empty magnitude
C18_Witness ==
  /\ op = "add_assign" /\ status = "ok"
  /\ x.data = <<>> /\ x.negative
  /\ ~is_zero(y)

\* the values of up to two limbs, as third operands of the comparisons
Thirds == {ctor_ull(v, ng) : v \in 0..(DOUBLE_BASE - 1), ng \in BOOLEAN}

\* C19: the six comparison operators agree with the order of the
\* mathematical values: for canonical a and b exactly one of a < b, a == b,
\* a > b holds, <= is the negation of >, >= of <, != of ==, and < is
\* transitive.
C19_ComparisonsAgree ==
  (Canonical(x) /\ Canonical(y)) =>
     /\ op_lt(x, y) = (Val(x) < Val(y))
     /\ op_eq(x, y) = (Val(x) = Val(y))
     /\ op_gt(x, y) = (Val(x) > Val(y))
     /\ op_le(x, y) = ~op_gt(x, y)
     /\ op_ge(x, y) = ~op_lt(x, y)
     /\ op_ne(x, y) = ~op_eq(x, y)
     /\ \A z \in Thirds : (op_lt(x, y) /\ op_lt(y, z)) => op_lt(x, z)

\* two distinct negative values of two limbs each were compared
C19_Witness ==
  /\ is_negative(x) /\ is_negative(y)
  /\ Len(x.data) = 2 /\ Len(y.data) = 2
  /\ op_lt(x, y)
  /\ op \in {"swap", "shl_assign"}

\* C20: a < b if and only if b - a > 0, for all a and b.
C20_OrderRespectsSub ==
  (op = "sub" /\ status = "ok") => (op_lt(y, x) <=> op_gt(res, ctor_ll(0)))

\* C21: every pre or post increment of an instance adds one to its value
\* and every decrement subtracts one, so that a sequence of them ends at
\* a + increments - decrements (incrementing -1 twice gives 1); a decrement
\* from zero gives the magnitude <<1>> with the negative flag set, and the
\* postfix forms return the value held before the step.
C21_IncDecSteps ==
  [][/\ op' \in {"preinc", "postinc"} => Val(x') = Val(x) + 1
     /\ op' \in {"predec", "postdec"} => Val(x') = Val(x) - 1
     /\ (op' \in {"predec", "postdec"} /\ is_zero(x)) => x' = BigInt(<<1>>, TRUE)
     /\ op' \in {"postinc", "postdec"} => res' = x]_vars

\* the limbs of the natural number v, lowest first
RECURSIVE Limbs(_)
Limbs(v) == IF v = 0 THEN <<>> ELSE <<v % DIGIT_BASE>> \o Limbs(v \div DIGIT_BASE)

\* C22: a big_integer constructed from a signed or unsigned integer v is
\* canonical, has at most two limbs, lowest first, and the value v; from
\* the most negative long long it has the magnitude LLONG_MAX + 1 with the
\* negative flag set.
C22_IntCtorExact ==
  (op = "ctor_ll" \/ (op = "ctor_ull" /\ ~x.negative)) =>
     /\ Val(x) = arg
     /\ Canonical(x) /\ Len(x.data) <= 2
     /\ x.data = Limbs(Abs(arg))
     /\ x.negative = (arg < 0)
     /\ arg = LLONG_MIN => x = BigInt(<<0, DIGIT_BASE \div 2>>, TRUE)

\* the most negative long long was passed to the constructor
C22_Witness ==
  /\ op = "ctor_ll" /\ arg = LLONG_MIN
  /\ x.negative /\ Len(x.data) = 2

DivSteps == {"divmod", "div_assign"}

\* C23: in every division by a non-zero divisor the correction loop of
\* div_rem (decrement the estimated digit, add the divisor back) runs at
\* most twice for each quotient digit.
C23_CorrectionsAtMostTwo ==
  [][(op' \in DivSteps /\ ~is_zero(y)) => div_rem(x, y).corr <= 2]_vars

\* a division in which the correction loop ran twice for one digit
C23_Witness ==
  /\ op = "divmod" /\ status = "ok"
  /\ ~is_zero(y) /\ div_rem(x, y).corr = 2
  /\ Val(res) * Val(y) + Val(aux) = Val(x)

SelfOps == {"add_self", "sub_self", "mul_self", "div_self", "rem_self",
            "and_self", "or_self", "xor_self"}

\* C24: a op= a, for op in + - * / % & | ^, leaves a with the value that
\* a op= b leaves for a distinct b equal to a (kept in res).
C24_AliasInsensitive ==
  (op \in SelfOps /\ status # "crash") => Val(x) = Val(res)

\* the vectors whose buffer is the shared_buffer at id
Owners(vs, id) == {n \in Names \cup Temps : vs[n].live /\ ~vs[n].is_small /\ vs[n].buf = id}

\* each shared_buffer counts its owners, no buffer is left without one, and
\* no local temp outlives its member function
RefCountsExact ==
  /\ \A id \in BufIds :
       /\ bufs[id].ref_count = Cardinality(Owners(vecs, id))
       /\ bufs[id].allocated = (Owners(vecs, id) # {})
  /\ \A n \in Temps : ~vecs[n].live

\* what a reader of the vector n sees: whether it is alive, its size and
\* its elements
Observed(vs, bs, n) == <<vs[n].live, vs[n].size, contents([v |-> vs, b |-> bs], n)>>

\* the vectors a call may change: the one it is made on, and the one it is
\* swapped with
Written(c) == {c.self} \cup (IF c.fn = "swap" THEN {c.other} ELSE {})

\* C25: a member function called on one socow_vector leaves the size and
\* the elements read through every other one as they were, whether or not
\* they share a buffer, and the ref_count of every shared_buffer is the
\* number of vectors that reference it.
C25_CowIsolation ==
  /\ []RefCountsExact
  /\ [][\A n \in Names \ Written(call') :
          Observed(vecs', bufs', n) = Observed(vecs, bufs, n)]_vars

\* b shared a's buffer of more than SMALL_SIZE elements until a was
\* written through the subscript; b still reads the old elements
C25_Witness ==
  /\ call.fn = "subscript" /\ call.self = "a"
  /\ vecs["a"].live /\ vecs["b"].live
  /\ ~vecs["a"].is_small /\ ~vecs["b"].is_small
  /\ vecs["a"].buf # vecs["b"].buf
  /\ bufs[vecs["a"].buf].ref_count = 1 /\ bufs[vecs["b"].buf].ref_count = 1
  /\ contents(World, "b") = <<1, 1, 1>>
  /\ contents(World, "a") = <<1, 2, 1>>

====
